---------------------------- MODULE Spec2Model ----------------------------
(***************************************************************************)
(* A model of gsr-jit: the compiler (src/src/compiler.rs), the executable  *)
(* memory manager (src/src/jit_memory.rs) and the watch loop of the CLI    *)
(* (src/examples/simple_jit.rs).                                           *)
(*                                                                         *)
(* TLC's integers are 32 bits wide, so a u64 is modelled as four 16-bit    *)
(* words, most significant first: <<w3, w2, w1, w0>> stands for            *)
(* w3*2^48 + w2*2^32 + w1*2^16 + w0.  Comparison, truncation (`as u32`)    *)
(* and the shift-and-mask of the byte transforms are computed on words.    *)
(***************************************************************************)
EXTENDS Integers, Sequences, FiniteSets, TLC

(***************************************************************************)
(* Bounds of the model.                                                    *)
(***************************************************************************)
\* the longest module (number of top-level items) the collector is run on
MaxItems == 3
\* the longest function body (number of statements) of the code generator runs
MaxStmts == 2
\* the platform's page size in bytes, scaled down
PageSize == 2
\* the most pages one call of JitMemory::new asks for
MaxPages == 1
\* the longest buffer handed to load_assembly and from_assembly_buf
MaxBufLen == 3
\* the most blocks the OS hands out in one run
MaxBlocks == 2
\* the watch loop takes no further file change once the label counter is here
MaxLabel == 3

\* buffer lengths tried from each base length: the base and MaxOffset more
MaxOffset == 4

\* the most items of a module that is compiled after another
MaxRepeatItems == 2

\* the most functions of a module that one of two threads compiles
MaxThreadItems == 3

(***************************************************************************)
(* u64 arithmetic on 16-bit words.                                         *)
(***************************************************************************)
U64(w3, w2, w1, w0) == <<w3, w2, w1, w0>>

\* a value below 2^16
Small(n) == <<0, 0, 0, n>>

\* x < y on u64
Lt(x, y) ==
    \E i \in 1..4 : x[i] < y[i] /\ \A j \in 1..(i - 1) : x[j] = y[j]

\* (x >> n) & 0xff, for n a multiple of 8
ShrByte(x, n) ==
    LET w == x[4 - (n \div 16)]
    IN  IF n % 16 = 8 THEN (w \div 256) % 256 ELSE w % 256

\* `x as u32`, `x as u16`, `x as u8`: truncation to the low bits
AsU32(x) == <<0, 0, x[3], x[4]>>
AsU16(x) == <<0, 0, 0, x[4]>>
AsU8(x) == x[4] % 256

(***************************************************************************)
(* Option<T>: None is the empty sequence, Some(x) the one-element one.     *)
(***************************************************************************)
None == <<>>
Some(x) == <<x>>
IsSome(o) == o /= None
Unwrap(o) == o[1]

(***************************************************************************)
(* Type and instruction model.                                             *)
(***************************************************************************)
StaticIntLiteral == {"I8", "I16", "I32", "I64", "U8", "U16", "U32", "U64"}

\* Ret::Int(i); the other kinds of Ret are never constructed by the compiler
RetInt(i) == <<"Int", i>>

FN_PROLOGUE == <<85, 72, 137, 229>>      \* 55 48 89 E5
FN_EPILOGUE == <<93, 195>>               \* 5D C3

OneComponent(a) == <<a>>
TwoComponent(a, b) == <<a, b>>

\* Ret::get_optimal_register_return: the opcode bytes of the move, if any
get_optimal_register_return(self) ==
    IF self[1] = "Int"
    THEN CASE self[2] \in {"I8", "U8"}   -> Some(OneComponent(176))       \* B0
           [] self[2] \in {"I16", "U16"} -> Some(TwoComponent(102, 184))  \* 66 B8
           [] self[2] \in {"I32", "U32"} -> Some(OneComponent(184))       \* B8
           [] self[2] \in {"I64", "U64"} -> Some(TwoComponent(72, 184))   \* 48 B8
           [] OTHER -> None
    ELSE None

\* determine_minimal_size with its first comparison made inclusive
determine_minimal_size_inclusive(actual) ==
    IF ~Lt(Small(255), actual) THEN "U8"
    ELSE IF Lt(actual, Small(65535)) THEN "U16"
    ELSE IF Lt(actual, U64(0, 0, 65535, 65535)) THEN "U32"
    ELSE "U64"

determine_minimal_size(actual) ==
    IF Lt(actual, Small(255)) THEN "U8"
    ELSE IF Lt(actual, Small(65535)) THEN "U16"
    ELSE IF Lt(actual, U64(0, 0, 65535, 65535)) THEN "U32"
    ELSE "U64"

try_match_u64_value(actual, expected) ==
    LET minimal_size == determine_minimal_size(actual)
    IN  CASE expected = "U64" -> Some(RetInt(expected))
          [] expected = "U32" /\ minimal_size \in {"U32", "U16", "U8"} -> Some(RetInt(expected))
          [] expected = "U16" /\ minimal_size \in {"U16", "U8"} -> Some(RetInt(expected))
          [] expected = "U8" /\ minimal_size = "U8" -> Some(RetInt(expected))
          [] OTHER -> None

transform_u16_to_array_of_u8_le(x) ==
    LET b1 == ShrByte(x, 8)
        b2 == ShrByte(x, 0)
    IN  <<b2, b1>>

transform_u32_to_array_of_u8_le(x) ==
    LET b1 == ShrByte(x, 24)
        b2 == ShrByte(x, 16)
        b3 == ShrByte(x, 8)
        b4 == ShrByte(x, 0)
    IN  <<b4, b3, b2, b1>>

transform_u64_to_array_of_u8_le(x) ==
    LET b1 == ShrByte(x, 56)
        b2 == ShrByte(x, 48)
        b3 == ShrByte(x, 40)
        b4 == ShrByte(x, 32)
        b5 == ShrByte(x, 24)
        b6 == ShrByte(x, 16)
        b7 == ShrByte(x, 8)
        b8 == ShrByte(x, 0)
    IN  <<b8, b7, b6, b5, b4, b3, b2, b1>>

(***************************************************************************)
(* The parsed module (syn::File).  An item is a function or something else *)
(* (a struct, a use, ...); every item is a record of the same shape so     *)
(* that modules can be enumerated.                                         *)
(*   attrs  : the attribute paths, each [leading_colon, first_segment]     *)
(*   output : ReturnType::Default is None, ReturnType::Type(t) is Some(t), *)
(*            t = [path, leading_colon, first_segment]; path = FALSE is a  *)
(*            type that is no Type::Path (a tuple, a reference, ...)       *)
(*   stmts  : the body, each statement [stmt, expr, lit, value, suffix]:   *)
(*            stmt = "Expr" is Stmt::Expr (anything else: Local, Item,     *)
(*            Semi), expr = "Lit" is Expr::Lit, lit = "Int" is Lit::Int    *)
(***************************************************************************)
Attr(leading_colon, first_segment) ==
    [leading_colon |-> leading_colon, first_segment |-> first_segment]

TypePath(leading_colon, first_segment) ==
    [path |-> TRUE, leading_colon |-> leading_colon, first_segment |-> first_segment]

TypeOther == [path |-> FALSE, leading_colon |-> FALSE, first_segment |-> ""]

LitInt(value, suffix) ==
    [stmt |-> "Expr", expr |-> "Lit", lit |-> "Int", value |-> value, suffix |-> suffix]

\* a literal that is no integer (a string, a float, a bool)
LitOther ==
    [stmt |-> "Expr", expr |-> "Lit", lit |-> "Other", value |-> Small(0), suffix |-> "None"]

\* an expression that is no literal (an identifier reference, a block, an if)
ExprOther ==
    [stmt |-> "Expr", expr |-> "Other", lit |-> "Other", value |-> Small(0), suffix |-> "None"]

\* a statement that is no Stmt::Expr (a let, an item, an expression with a semicolon)
StmtOther ==
    [stmt |-> "Other", expr |-> "Other", lit |-> "Other", value |-> Small(0), suffix |-> "None"]

ItemFn(ident, attrs, inputs, output, stmts) ==
    [kind |-> "Fn", ident |-> ident, attrs |-> attrs, inputs |-> inputs,
     output |-> output, stmts |-> stmts]

ItemOther ==
    [kind |-> "Other", ident |-> "", attrs |-> <<>>, inputs |-> <<>>,
     output |-> None, stmts |-> <<>>]

has_first_segment(path, expected) == path.first_segment = expected

is_start_label(f) ==
    \E n \in 1..Len(f.attrs) :
        ~f.attrs[n].leading_colon /\ has_first_segment(f.attrs[n], "start")

(***************************************************************************)
(* Code generator: return-type inference and validation.                   *)
(***************************************************************************)
get_return_type_outer(return_type) ==
    IF return_type = None THEN None
    ELSE LET t == Unwrap(return_type)
         IN  IF ~t.path THEN None
             ELSE IF t.leading_colon THEN None
             ELSE IF t.first_segment = "u8" THEN Some(RetInt("U8"))
             ELSE IF t.first_segment = "u16" THEN Some(RetInt("U16"))
             ELSE IF t.first_segment = "u32" THEN Some(RetInt("U32"))
             ELSE IF t.first_segment = "u64" THEN Some(RetInt("U64"))
             ELSE None

get_return_type_inner(statements, expected_type) ==
    IF statements = <<>> THEN None
    ELSE LET last_statement == statements[Len(statements)]
         IN  IF /\ last_statement.stmt = "Expr"
                /\ IsSome(expected_type)
                /\ last_statement.expr = "Lit"
                /\ last_statement.lit = "Int"
                /\ Unwrap(expected_type)[1] = "Int"
             THEN IF last_statement.suffix = "None"
                  THEN try_match_u64_value(last_statement.value, Unwrap(expected_type)[2])
                  ELSE IF last_statement.suffix \in StaticIntLiteral
                  THEN Some(RetInt(last_statement.suffix))
                  ELSE None
             ELSE None

(***************************************************************************)
(* Code generator: instruction emission.                                   *)
(***************************************************************************)
\* assemble_statement without the narrowing of a U64 return to the 32-bit move
assemble_statement_no_narrowing(stmt, return_type) ==
    IF stmt.stmt = "Expr" /\ stmt.expr = "Lit" /\ stmt.lit = "Int"
    THEN LET val == stmt.value
             asm_instr == get_optimal_register_return(return_type)
         IN  IF IsSome(asm_instr)
             THEN Unwrap(asm_instr) \o
                  (CASE return_type = RetInt("U64") ->
                            transform_u64_to_array_of_u8_le(val)
                     [] return_type = RetInt("U32") ->
                            transform_u32_to_array_of_u8_le(AsU32(val))
                     [] return_type = RetInt("U16") ->
                            transform_u16_to_array_of_u8_le(AsU16(val))
                     [] return_type = RetInt("U8") -> <<AsU8(val)>>
                     [] OTHER -> <<>>)
             ELSE <<>>
    ELSE <<>>

\* the bytes one statement adds to assembly_vec
assemble_statement(stmt, return_type) ==
    IF stmt.stmt = "Expr" /\ stmt.expr = "Lit" /\ stmt.lit = "Int"
    THEN LET val == stmt.value
             min_size == determine_minimal_size(val)
             optimal_return_size ==
                 IF return_type = RetInt("U64") /\ min_size \in {"U32", "U16", "U8"}
                 THEN RetInt("U32")
                 ELSE return_type
             asm_instr == get_optimal_register_return(optimal_return_size)
         IN  IF IsSome(asm_instr)
             THEN Unwrap(asm_instr) \o
                  (CASE optimal_return_size = RetInt("U64") ->
                            transform_u64_to_array_of_u8_le(val)
                     [] optimal_return_size = RetInt("U32") ->
                            transform_u32_to_array_of_u8_le(AsU32(val))
                     [] optimal_return_size = RetInt("U16") ->
                            transform_u16_to_array_of_u8_le(AsU16(val))
                     [] optimal_return_size = RetInt("U8") -> <<AsU8(val)>>
                     [] OTHER -> <<>>)
             ELSE <<>>
    ELSE <<>>

RECURSIVE assemble_statements(_, _)
\* return_type is the unwrapped Ret: the caller decides whether unwrap() panics
assemble_statements(stmts, return_type) ==
    IF stmts = <<>> THEN <<>>
    ELSE assemble_statement(Head(stmts), return_type)
             \o assemble_statements(Tail(stmts), return_type)

\* assemble_function without the epilogue
assemble_function_no_epilogue(fn_location, fn_map) ==
    LET entry == fn_map[fn_location]
        return_type_outer == get_return_type_outer(entry.return_type)
        return_type_inner == get_return_type_inner(entry.statements, return_type_outer)
    IN  IF return_type_outer /= return_type_inner
        THEN [panic |-> FALSE, instructions |-> <<>>]
        ELSE IF return_type_outer = None
        THEN [panic |-> TRUE, instructions |-> <<>>]
        ELSE [panic |-> FALSE,
              instructions |-> FN_PROLOGUE
                  \o assemble_statements(entry.statements, Unwrap(return_type_outer))]

\* assemble_function on the entry function: the bytes it returns, or the panic
\* of assemble_statements' return_type.unwrap() when both types are None
assemble_function(fn_location, fn_map) ==
    LET entry == fn_map[fn_location]
        return_type_outer == get_return_type_outer(entry.return_type)
        return_type_inner == get_return_type_inner(entry.statements, return_type_outer)
    IN  IF return_type_outer /= return_type_inner
        THEN [panic |-> FALSE, instructions |-> <<>>]
        ELSE IF return_type_outer = None
        THEN [panic |-> TRUE, instructions |-> <<>>]
        ELSE [panic |-> FALSE,
              instructions |-> FN_PROLOGUE
                  \o assemble_statements(entry.statements, Unwrap(return_type_outer))
                  \o FN_EPILOGUE]

(***************************************************************************)
(* Function collector: the per-item body of compile's for loop, on the     *)
(* locals of compile and the process-wide label counter.                   *)
(*   returned = "No" while the loop goes on, else the diagnostic printed   *)
(*   before `return None`.                                                 *)
(***************************************************************************)
Function(f) ==
    [name |-> f.ident, arguments |-> f.inputs, statements |-> f.stmts,
     return_type |-> f.output, memory_location |-> None]

\* BTreeMap::insert: an existing key is overwritten
Insert(map, key, value) == (key :> value) @@ map

compile_locals(label) ==
    [entry_fn |-> None, module_functions |-> <<>>, module_functions_set |-> {},
     GLOBAL_LABEL_ID |-> label, returned |-> "No"]

\* scan_item without the check for an entry already recorded: the last marker wins
scan_item_last_start_wins(c, item) ==
    IF item.kind /= "Fn" THEN c
    ELSE LET fn_name == item.ident
             fn_label == c.GLOBAL_LABEL_ID
         IN  IF fn_name \in c.module_functions_set
             THEN [c EXCEPT !.returned = "FunctionDeclaredMultipleTimes"]
             ELSE LET d == [c EXCEPT
                            !.module_functions_set = @ \cup {fn_name},
                            !.module_functions = Insert(@, fn_label, Function(item)),
                            !.GLOBAL_LABEL_ID = @ + 1]
                  IN  IF is_start_label(item)
                      THEN [d EXCEPT !.entry_fn = Some(fn_label)]
                      ELSE d

\* scan_item with the function put into the table before its name is checked
scan_item_insert_first(c, item) ==
    IF item.kind /= "Fn" THEN c
    ELSE LET fn_name == item.ident
             fn_label == c.GLOBAL_LABEL_ID
             d == [c EXCEPT
                   !.module_functions_set = @ \cup {fn_name},
                   !.module_functions = Insert(@, fn_label, Function(item))]
         IN  IF fn_name \in c.module_functions_set
             THEN [d EXCEPT !.returned = "FunctionDeclaredMultipleTimes"]
             ELSE IF is_start_label(item)
                  THEN IF IsSome(d.entry_fn)
                       THEN [d EXCEPT !.returned = "MultipleEntryPoints"]
                       ELSE [d EXCEPT !.entry_fn = Some(fn_label),
                                      !.GLOBAL_LABEL_ID = @ + 1]
                  ELSE [d EXCEPT !.GLOBAL_LABEL_ID = @ + 1]

scan_item(c, item) ==
    IF item.kind /= "Fn" THEN c
    ELSE LET fn_name == item.ident
             fn_label == c.GLOBAL_LABEL_ID
         IN  IF fn_name \in c.module_functions_set
             THEN [c EXCEPT !.returned = "FunctionDeclaredMultipleTimes"]
             ELSE LET d == [c EXCEPT
                            !.module_functions_set = @ \cup {fn_name},
                            !.module_functions = Insert(@, fn_label, Function(item))]
                  IN  IF is_start_label(item)
                      THEN IF IsSome(d.entry_fn)
                           THEN [d EXCEPT !.returned = "MultipleEntryPoints"]
                           ELSE [d EXCEPT !.entry_fn = Some(fn_label),
                                          !.GLOBAL_LABEL_ID = @ + 1]
                      ELSE [d EXCEPT !.GLOBAL_LABEL_ID = @ + 1]

RECURSIVE scan_items(_, _)
scan_items(c, items) ==
    IF items = <<>> \/ c.returned /= "No" THEN c
    ELSE scan_items(scan_item(c, Head(items)), Tail(items))

\* at the start, no function has a location in memory
unresolved_offsets(fn_map) ==
    [label \in DOMAIN fn_map |-> <<"UnresolvedFnName", fn_map[label].name>>]

\* what compile does after the loop, given the loop's locals
compile_finish(c) ==
    IF c.returned /= "No"
    THEN [panic |-> FALSE, value |-> None, error |-> c.returned]
    ELSE IF c.entry_fn = None
    THEN [panic |-> FALSE, value |-> None, error |-> "NoEntryFunction"]
    ELSE LET a == assemble_function(Unwrap(c.entry_fn), c.module_functions)
         IN  IF a.panic
             THEN [panic |-> TRUE, value |-> None, error |-> ""]
             ELSE [panic |-> FALSE,
                   value |-> Some([instructions |-> a.instructions]),
                   error |-> ""]

\* compile(ast), run to its end with the label counter at `label`
compile(module_ast, label) ==
    LET c == scan_items(compile_locals(label), module_ast)
    IN  [ret |-> compile_finish(c), GLOBAL_LABEL_ID |-> c.GLOBAL_LABEL_ID]

(***************************************************************************)
(* Executable memory manager.  The heap is the sequence of the blocks      *)
(* posix_memalign has handed out; a pointer is a block's index, the null   *)
(* pointer is 0.  A block records its size, its bytes, whether it is       *)
(* executable, and how often libc::free was called on it.                  *)
(***************************************************************************)
TRAP == 204                                  \* 0xCC

Fill(n, byte) == [i \in 1..n |-> byte]

\* posix_memalign succeeded: a new block, its bytes not yet initialised to
\* anything the program reads before memset
reserve(heap, size) ==
    Append(heap, [size |-> size, bytes |-> Fill(size, 0), exec |-> FALSE, frees |-> 0])

libc_free(heap, ptr) == [heap EXCEPT ![ptr].frees = @ + 1]

\* f32 has a significand of 24 bits: every integer below 2^24 is an f32
F32_EXACT == 16777216

RECURSIVE Ulp(_, _)
\* the distance of neighbouring f32 values at n >= 2^24: 2 up to 2^25, 4 up
\* to 2^26, ..
Ulp(n, top) == IF n < top THEN 1 ELSE 2 * Ulp(n, 2 * top)

\* the f32 nearest to n + f with 0 <= f < 1 (above = f is not 0), ties to even;
\* at 2^24 and beyond every f32 is an integer
RoundF32(n, above) ==
    LET ulp == Ulp(n, F32_EXACT)
        q == n \div ulp
        r == n % ulp
    IN  IF ulp = 1 THEN n
        ELSE IF 2 * r < ulp THEN q * ulp
        ELSE IF 2 * r > ulp \/ above THEN (q + 1) * ulp
        ELSE IF q % 2 = 0 THEN q * ulp ELSE (q + 1) * ulp

\* `n as f32`
as_f32(n) == RoundF32(n, FALSE)

RECURSIVE Binade(_, _)
\* 2^(24-e) for 2^e <= k < 2^(e+1): the f32 values in [k, k+1) are 1/2^(23-e)
\* apart, and half of that is 1 / Binade(k, 2)
Binade(k, top) == IF k < top THEN F32_EXACT ELSE Binade(k, 2 * top) \div 2

\* (a / b).ceil() for f32 a and b holding integers, b > 0: the quotient k + r/b
\* is rounded to f32 first.  Below 2^24 it rounds down to k when r/b is less
\* than half the distance of the f32 values there (or equal, k's significand
\* being even: it is odd only for an odd k of 2^23 or more), and then the
\* ceiling is k, not k + 1
ceil_f32_div(a, b) ==
    LET k == a \div b
        r == a % b
        half == Binade(k, 2)
    IN  IF r = 0 THEN as_f32(k)
        ELSE IF k = 0 THEN 1
        ELSE IF k >= F32_EXACT THEN RoundF32(k, TRUE)
        ELSE IF r <= (b - 1) \div half THEN k
        ELSE IF b % half = 0 /\ r = b \div half /\ (half > 2 \/ k % 2 = 0) THEN k
        ELSE k + 1

\* (buf_len as f32 / page_size as f32).ceil() as usize
necessary_pages(buf_len, page_size) == ceil_f32_div(as_f32(buf_len), as_f32(page_size))

\* JitMemory::new as in the draft of src/src/main.rs: a failed mprotect returns None
\* without freeing the block
jit_new_no_free(heap, num_pages, memalign, mprotect) ==
    LET page_size == PageSize
        allocation_size_in_bytes == num_pages * page_size
        memory_ptr == Len(heap) + 1
        reserved == reserve(heap, allocation_size_in_bytes)
    IN  IF memalign /= "OK"
        THEN [heap |-> heap, value |-> None]
        ELSE IF mprotect = "FAIL"
        THEN [heap |-> reserved, value |-> None]
        ELSE [heap |-> [reserved EXCEPT
                          ![memory_ptr].exec = TRUE,
                          ![memory_ptr].bytes = Fill(allocation_size_in_bytes, TRAP)],
              value |-> Some([page_size |-> page_size,
                              number_of_pages |-> num_pages,
                              allocated_size |-> allocation_size_in_bytes,
                              memory_ptr |-> memory_ptr])]

\* JitMemory::new (linux).  memalign is what posix_memalign answers: "OK",
\* "ENOMEM", or "NULL" (no error and a null pointer, which POSIX allows for a
\* size of 0); mprotect is "OK" or "FAIL"
jit_new(heap, num_pages, memalign, mprotect) ==
    LET page_size == PageSize
        allocation_size_in_bytes == num_pages * page_size
        memory_ptr == Len(heap) + 1
        reserved == reserve(heap, allocation_size_in_bytes)
    IN  IF memalign /= "OK"
        THEN [heap |-> heap, value |-> None]
        ELSE IF mprotect = "FAIL"
        THEN [heap |-> libc_free(reserved, memory_ptr), value |-> None]
        ELSE [heap |-> [reserved EXCEPT
                          ![memory_ptr].exec = TRUE,
                          ![memory_ptr].bytes = Fill(allocation_size_in_bytes, TRAP)],
              value |-> Some([page_size |-> page_size,
                              number_of_pages |-> num_pages,
                              allocated_size |-> allocation_size_in_bytes,
                              memory_ptr |-> memory_ptr])]

\* what posix_memalign can answer for a request of `size` bytes
MemalignAnswers(size) == IF size = 0 THEN {"OK", "ENOMEM", "NULL"} ELSE {"OK", "ENOMEM"}

\* load_assembly with the bound compared by >=
load_assembly_ge(heap, self, instructions) ==
    LET instructions_len == Len(instructions)
    IN  IF instructions_len >= self.allocated_size
        THEN [heap |-> heap, result |-> "InstructionBufTooLarge"]
        ELSE [heap |-> [heap EXCEPT ![self.memory_ptr].bytes =
                          [i \in 1..self.allocated_size |->
                              IF i <= instructions_len THEN instructions[i] ELSE @[i]]],
              result |-> "Ok"]

\* JitMemory::load_assembly: ptr::copy of the buffer to the start of the region
load_assembly(heap, self, instructions) ==
    LET instructions_len == Len(instructions)
    IN  IF instructions_len > self.allocated_size
        THEN [heap |-> heap, result |-> "InstructionBufTooLarge"]
        ELSE [heap |-> [heap EXCEPT ![self.memory_ptr].bytes =
                          [i \in 1..self.allocated_size |->
                              IF i <= instructions_len THEN instructions[i] ELSE @[i]]],
              result |-> "Ok"]

\* Drop for JitMemory
jit_drop(heap, self) == libc_free(heap, self.memory_ptr)

\* JitMemory::from_assembly_buf: `?` on new, `.ok()?` on the load (the region is
\* dropped when the load fails)
from_assembly_buf(heap, instructions, memalign, mprotect) ==
    LET page_size == PageSize
        buf_len == Len(instructions)
        pages == necessary_pages(buf_len, page_size)
        made == jit_new(heap, pages, memalign, mprotect)
    IN  IF made.value = None THEN made
        ELSE LET memory == Unwrap(made.value)
                 loaded == load_assembly(made.heap, memory, instructions)
             IN  IF loaded.result /= "Ok"
                 THEN [heap |-> jit_drop(loaded.heap, memory), value |-> None]
                 ELSE [heap |-> loaded.heap, value |-> Some(memory)]

\* `*jit = Some(memory)`: the value the slot held is dropped
assign_jit(heap, jit, memory) ==
    [heap |-> IF IsSome(jit) THEN jit_drop(heap, Unwrap(jit)) ELSE heap,
     jit |-> Some(memory)]

\* a panic in main unwinds: the region main holds is dropped
unwind(heap, jit) == IF IsSome(jit) THEN jit_drop(heap, Unwrap(jit)) ELSE heap

(***************************************************************************)
(* State.                                                                  *)
(*   compile: ast is the module being compiled, pos the number of items    *)
(*   the for loop has consumed, pc where compile stands ("scan" in the     *)
(*   loop, "assemble" before assemble_function, "done" returned, "panic"   *)
(*   aborted, "idle" not running), ret what it returned; the others are    *)
(*   compile's locals and the static GLOBAL_LABEL_ID.                      *)
(*   determine_minimal_size: its argument and its result.                  *)
(*   memory: heap is the OS heap, regions the JitMemory values a client of *)
(*   the API holds, op the last call and what it returned.                 *)
(*   watch loop: file is the parsed file (None when it does not parse),    *)
(*   cli_pc where main stands, jit_mem its region, assembly_buf the buffer *)
(*   compile returned, invoked the blocks that were run.                   *)
(***************************************************************************)
VARIABLES ast, pos, pc, entry_fn, module_functions, module_functions_set,
          fn_offset_map, ret, GLOBAL_LABEL_ID,
          actual, minimal_size,
          heap, regions, op,
          file, cli_pc, jit_mem, assembly_buf, invoked,
          assembly_len, os_page_size, page_count, load_result,
          threads

compileLocals == <<ast, pos, pc, entry_fn, module_functions, module_functions_set,
                   fn_offset_map, ret>>
compileVars == <<compileLocals, GLOBAL_LABEL_ID>>
sizeVars == <<actual, minimal_size>>
memVars == <<heap, regions, op>>
cliVars == <<file, cli_pc, jit_mem, assembly_buf, invoked>>
pageVars == <<assembly_len, os_page_size, page_count, load_result>>
threadVars == <<threads>>
vars == <<compileVars, sizeVars, memVars, cliVars, pageVars, threadVars>>

NoReturn == [panic |-> FALSE, value |-> None, error |-> ""]

\* compile is entered with `module_ast`: fresh locals, the counter as the process left it
CompileEntered(module_ast) ==
    /\ ast = module_ast
    /\ pos = 0
    /\ pc = "scan"
    /\ entry_fn = None
    /\ module_functions = <<>>
    /\ module_functions_set = {}
    /\ fn_offset_map = <<>>
    /\ ret = NoReturn

CompileIdle ==
    /\ ast = <<>>
    /\ pos = 0
    /\ pc = "idle"
    /\ entry_fn = None
    /\ module_functions = <<>>
    /\ module_functions_set = {}
    /\ fn_offset_map = <<>>
    /\ ret = NoReturn
    /\ GLOBAL_LABEL_ID = 0

SizeIdle == actual = Small(0) /\ minimal_size = "Unknown"

\* no thread is in compile
ThreadsIdle == threads = <<>>

PagesIdle ==
    /\ assembly_len = 0
    /\ os_page_size = PageSize
    /\ page_count = None
    /\ load_result = ""

NoOp == [name |-> "", ptr |-> 0, len |-> 0, result |-> ""]

MemIdle == heap = <<>> /\ regions = {} /\ op = NoOp

CliIdle ==
    /\ file = None
    /\ cli_pc = "idle"
    /\ jit_mem = None
    /\ assembly_buf = None
    /\ invoked = {}

(***************************************************************************)
(* Inputs.                                                                 *)
(***************************************************************************)
START == Attr(FALSE, "start")

FnNames == {"main", "helper"}

\* unmarked; marked; `::start` (a leading colon, not the marker); marked second
AttrLists == {<<>>, <<START>>, <<Attr(TRUE, "start")>>, <<Attr(FALSE, "inline"), START>>}

u8 == Some(TypePath(FALSE, "u8"))
u16 == Some(TypePath(FALSE, "u16"))
u32 == Some(TypePath(FALSE, "u32"))
u64 == Some(TypePath(FALSE, "u64"))

\* none, the four integer names, a qualified `::u8`, another name, a type that is no path
ReturnTypes ==
    {None, u8, u16, u32, u64, Some(TypePath(TRUE, "u8")),
     Some(TypePath(FALSE, "bool")), Some(TypeOther)}

\* (declared type, body) of the functions of the collector's modules: one that
\* assembles, one whose literal does not fit, one with neither type nor body
CompileShapes ==
    { <<u64, <<LitInt(Small(4), "None")>> >>,
      <<u8, <<LitInt(Small(300), "None")>> >>,
      <<None, <<>> >> }

CompileItems ==
    {ItemOther} \cup
    { ItemFn(n, a, <<>>, sh[1], sh[2]) : n \in FnNames, a \in AttrLists, sh \in CompileShapes }

CompileModules == UNION { [1..k -> CompileItems] : k \in 0..MaxItems }

\* literal values around the width boundaries, and one with eight distinct bytes
LitValues ==
    { Small(0), Small(4), Small(254), Small(255), Small(300), Small(65534), Small(65535),
      U64(0, 0, 1, 0), U64(0, 0, 65535, 65534), U64(0, 0, 65535, 65535),
      U64(0, 1, 0, 0), U64(258, 772, 1286, 1800), U64(65535, 65535, 65535, 65535) }

\* IntSuffix; "Other" stands for the suffixes compile does not list (usize, i128, ...)
Suffixes == {"None", "I8", "I16", "I32", "I64", "U8", "U16", "U32", "U64", "Other"}

\* the parser yields Stmt::Expr of a literal only as the last statement of a block
LastStatements ==
    { LitInt(v, x) : v \in LitValues, x \in Suffixes } \cup {LitOther, ExprOther, StmtOther}

EarlierStatements == {ExprOther, StmtOther}

Bodies ==
    {<<>>} \cup
    UNION { { b \o <<l>> : b \in [1..k -> EarlierStatements], l \in LastStatements }
            : k \in 0..(MaxStmts - 1) }

\* a module of one marked function
CodegenModules ==
    { <<ItemFn("main", <<START>>, i, t, b)>> :
        i \in {<<>>, <<"x">>}, t \in ReturnTypes, b \in Bodies }

EdgeWords == {0, 1, 254, 255, 256, 65534, 65535}

SizeValues == { U64(a, b, c, d) : a, b, c, d \in EdgeWords }

(***************************************************************************)
(* compile, one item of the loop at a time.                                *)
(***************************************************************************)
Locals ==
    [entry_fn |-> entry_fn, module_functions |-> module_functions,
     module_functions_set |-> module_functions_set,
     GLOBAL_LABEL_ID |-> GLOBAL_LABEL_ID, returned |-> "No"]

\* one iteration of `for item in ast.items`
LoopBody(item) ==
    LET c == scan_item(Locals, item)
    IN  /\ entry_fn' = c.entry_fn
        /\ module_functions' = c.module_functions
        /\ module_functions_set' = c.module_functions_set
        /\ GLOBAL_LABEL_ID' = c.GLOBAL_LABEL_ID
        /\ pos' = pos + 1
        /\ pc' = IF c.returned = "No" THEN "scan" ELSE "done"
        /\ ret' = IF c.returned = "No" THEN ret ELSE compile_finish(c)
        /\ UNCHANGED <<ast, fn_offset_map, sizeVars, memVars, cliVars, pageVars, threadVars>>

InLoop == pc = "scan" /\ pos < Len(ast)

\* `_ => { }`: an item that is no function
ScanOther ==
    /\ InLoop
    /\ ast[pos + 1].kind /= "Fn"
    /\ LoopBody(ast[pos + 1])

\* a name already in module_functions_set: return None
ScanDuplicate ==
    /\ InLoop
    /\ ast[pos + 1].kind = "Fn"
    /\ ast[pos + 1].ident \in module_functions_set
    /\ LoopBody(ast[pos + 1])

\* a function without the marker is accepted
ScanFn ==
    /\ InLoop
    /\ ast[pos + 1].kind = "Fn"
    /\ ast[pos + 1].ident \notin module_functions_set
    /\ ~is_start_label(ast[pos + 1])
    /\ LoopBody(ast[pos + 1])

\* the first marked function is accepted and becomes the entry
ScanStart ==
    /\ InLoop
    /\ ast[pos + 1].kind = "Fn"
    /\ ast[pos + 1].ident \notin module_functions_set
    /\ is_start_label(ast[pos + 1])
    /\ entry_fn = None
    /\ LoopBody(ast[pos + 1])

\* a marked function after the entry was recorded: return None
ScanSecondStart ==
    /\ InLoop
    /\ ast[pos + 1].kind = "Fn"
    /\ ast[pos + 1].ident \notin module_functions_set
    /\ is_start_label(ast[pos + 1])
    /\ entry_fn /= None
    /\ LoopBody(ast[pos + 1])

\* after the loop, no entry: None
NoEntry ==
    /\ pc = "scan"
    /\ pos = Len(ast)
    /\ entry_fn = None
    /\ pc' = "done"
    /\ ret' = compile_finish(Locals)
    /\ UNCHANGED <<ast, pos, entry_fn, module_functions, module_functions_set,
                   fn_offset_map, GLOBAL_LABEL_ID, sizeVars, memVars, cliVars, pageVars, threadVars>>

\* after the loop, an entry: every function is recorded as unresolved
EnterAssemble ==
    /\ pc = "scan"
    /\ pos = Len(ast)
    /\ entry_fn /= None
    /\ fn_offset_map' = unresolved_offsets(module_functions)
    /\ pc' = "assemble"
    /\ UNCHANGED <<ast, pos, entry_fn, module_functions, module_functions_set,
                   ret, GLOBAL_LABEL_ID, sizeVars, memVars, cliVars, pageVars, threadVars>>

\* Some(AssemblyBuf { instructions: assemble_function(..) }), or its panic
Assemble ==
    /\ pc = "assemble"
    /\ ret' = compile_finish(Locals)
    /\ pc' = IF ret'.panic THEN "panic" ELSE "done"
    /\ UNCHANGED <<ast, pos, entry_fn, module_functions, module_functions_set,
                   fn_offset_map, GLOBAL_LABEL_ID, sizeVars, memVars, cliVars, pageVars, threadVars>>

\* the outer and the inner return type of the entry function
EntryOuter == get_return_type_outer(module_functions[Unwrap(entry_fn)].return_type)
EntryInner ==
    get_return_type_inner(module_functions[Unwrap(entry_fn)].statements, EntryOuter)

\* the types agree and are present: prologue, body, epilogue
AssembleFramed ==
    pc = "assemble" /\ EntryOuter = EntryInner /\ EntryOuter /= None /\ Assemble

\* the types differ: `return Vec::new()`
AssembleMismatch == pc = "assemble" /\ EntryOuter /= EntryInner /\ Assemble

\* both are None: assemble_statements' return_type.unwrap() panics
AssemblePanic ==
    pc = "assemble" /\ EntryOuter = EntryInner /\ EntryOuter = None /\ Assemble

InitCompile ==
    /\ \E module_ast \in CompileModules : CompileEntered(module_ast)
    /\ GLOBAL_LABEL_ID = 0
    /\ SizeIdle
    /\ PagesIdle
    /\ ThreadsIdle
    /\ MemIdle
    /\ CliIdle

NextCompile ==
    \/ ScanOther
    \/ ScanDuplicate
    \/ ScanFn
    \/ ScanStart
    \/ ScanSecondStart
    \/ NoEntry
    \/ EnterAssemble
    \/ AssembleFramed
    \/ AssembleMismatch
    \/ AssemblePanic

\* compile on the modules of the collector
SpecCompile == InitCompile /\ [][NextCompile]_vars

InitCodegen ==
    /\ \E module_ast \in CodegenModules : CompileEntered(module_ast)
    /\ GLOBAL_LABEL_ID = 0
    /\ SizeIdle
    /\ PagesIdle
    /\ ThreadsIdle
    /\ MemIdle
    /\ CliIdle

NextCodegen ==
    \/ ScanStart
    \/ EnterAssemble
    \/ AssembleFramed
    \/ AssembleMismatch
    \/ AssemblePanic

\* compile on the modules of one marked function
SpecCodegen == InitCodegen /\ [][NextCodegen]_vars

(***************************************************************************)
(* determine_minimal_size on its own.                                      *)
(***************************************************************************)
DetermineMinimalSize ==
    /\ minimal_size = "Unknown"
    /\ minimal_size' = determine_minimal_size(actual)
    /\ UNCHANGED <<actual, compileVars, memVars, cliVars, pageVars, threadVars>>

InitSize ==
    /\ actual \in SizeValues
    /\ minimal_size = "Unknown"
    /\ PagesIdle
    /\ ThreadsIdle
    /\ CompileIdle
    /\ MemIdle
    /\ CliIdle

NextSize == DetermineMinimalSize

SpecSize == InitSize /\ [][NextSize]_vars

(***************************************************************************)
(* Properties of compile.                                                  *)
(***************************************************************************)
\* compile has returned or aborted
Returned == pc \in {"done", "panic"}

FnItems(module_ast) == { i \in 1..Len(module_ast) : module_ast[i].kind = "Fn" }

\* the marker: an unqualified attribute whose first segment is `start`
Marked(module_ast) ==
    { i \in FnItems(module_ast) : \E n \in 1..Len(module_ast[i].attrs) : module_ast[i].attrs[n] = START }

UniqueNames(module_ast) ==
    \A i, j \in FnItems(module_ast) : i /= j => module_ast[i].ident /= module_ast[j].ident

\* the items that repeat the name of an earlier function
Repeats(module_ast) ==
    { i \in FnItems(module_ast) : \E j \in FnItems(module_ast) : j < i /\ module_ast[j].ident = module_ast[i].ident }

Least(S) == CHOOSE i \in S : \A j \in S : i <= j

\* the second marked function
SecondMarked(module_ast) == Least(Marked(module_ast) \ {Least(Marked(module_ast))})

\* a buffer that is the prologue, some body, the epilogue
Framed(buf) ==
    /\ Len(buf.instructions) >= 6
    /\ SubSeq(buf.instructions, 1, 4) = <<85, 72, 137, 229>>
    /\ SubSeq(buf.instructions, Len(buf.instructions) - 1, Len(buf.instructions))
           = <<93, 195>>

\* the declared return type is one of the unqualified names u8, u16, u32, u64
IntegerType(t) == t \in {u8, u16, u32, u64}

\* the entry function of a module with exactly one marked function
EntryItem(module_ast) == module_ast[Least(Marked(module_ast))]

C2_Module == <<ItemFn("main", <<START>>, <<>>, u64, <<LitInt(Small(4), "None")>>)>>

\* C2, as claimed: that module compiles to exactly 55 48 89 E5 B0 04 5D C3
C2_EightBytes ==
    (Returned /\ ast = C2_Module)
        => ret.value = Some([instructions |-> <<85, 72, 137, 229, 176, 4, 93, 195>>])

\* C2, amended: that module compiles to exactly the 11 bytes
\* 55 48 89 E5 B8 04 00 00 00 5D C3 (prologue, one-byte-opcode 32-bit move of 4,
\* epilogue)
C2_ElevenBytes ==
    (Returned /\ ast = C2_Module)
        => /\ pc = "done"
           /\ ret.value =
                Some([instructions |-> <<85, 72, 137, 229, 184, 4, 0, 0, 0, 93, 195>>])

C2_Witness == pc = "done" /\ ast = C2_Module /\ IsSome(ret.value)

\* C3: with unique names, a module without a marked function fails with the
\* no-entry outcome after the whole module was scanned, and a module with two
\* or more marked functions fails with the multiple-entries outcome at the
\* second marked function; neither returns a buffer
C3_EntryErrors ==
    (Returned /\ UniqueNames(ast)) =>
        /\ Marked(ast) = {} =>
              /\ pc = "done"
              /\ ret.value = None
              /\ ret.error = "NoEntryFunction"
              /\ pos = Len(ast)
        /\ Cardinality(Marked(ast)) >= 2 =>
              /\ pc = "done"
              /\ ret.value = None
              /\ ret.error = "MultipleEntryPoints"
              /\ pos = SecondMarked(ast)

\* C3's case: two marked functions with an item between them; compile has
\* stopped at the second
C3_Witness ==
    /\ pc = "done"
    /\ UniqueNames(ast)
    /\ Marked(ast) = {1, 3}
    /\ ret.error = "MultipleEntryPoints"

\* what compile holds when it stops at the repeat `d`: the functions before d,
\* labelled in scan order, and nothing of d or of a later item
StoppedAtRepeat(d) ==
    /\ pc = "done"
    /\ ret.value = None
    /\ ret.error = "FunctionDeclaredMultipleTimes"
    /\ pos = d
    /\ Cardinality(DOMAIN module_functions) = Cardinality(FnItems(SubSeq(ast, 1, d - 1)))
    /\ \A l \in DOMAIN module_functions :
           \E i \in FnItems(SubSeq(ast, 1, d - 1)) :
               module_functions[l] = Function(ast[i])
    /\ GLOBAL_LABEL_ID = Cardinality(FnItems(SubSeq(ast, 1, d - 1)))

\* C4, as claimed: for any module in which two functions share a name, compile
\* fails with the declared-multiple-times outcome when the second function of
\* that name is scanned; scanning stops there, neither it nor any later item is
\* added to the function table or labelled, and no buffer is returned
C4_AnyRepeatStops ==
    (Returned /\ Repeats(ast) /= {}) => StoppedAtRepeat(Least(Repeats(ast)))

\* C4, amended: the same, for any module in which two functions share a name
\* and fewer than two marked functions come before the second function of that
\* name (with two marked functions before it, compile has already failed with
\* the multiple-entries outcome)
C4_ReachedRepeatStops ==
    (/\ Returned
     /\ Repeats(ast) /= {}
     /\ Cardinality({ i \in Marked(ast) : i < Least(Repeats(ast)) }) < 2)
        => StoppedAtRepeat(Least(Repeats(ast)))

\* C4's case: the entry was recorded, the repeat is the second item and a third
\* item follows it
C4_Witness ==
    /\ pc = "done"
    /\ Len(ast) = 3
    /\ Marked(ast) = {1}
    /\ Repeats(ast) = {2}
    /\ FnItems(ast) = {1, 2, 3}
    /\ ret.error = "FunctionDeclaredMultipleTimes"

\* the last statement is an integer literal expression
EndsInIntLiteral(stmts) ==
    /\ stmts /= <<>>
    /\ stmts[Len(stmts)].stmt = "Expr"
    /\ stmts[Len(stmts)].expr = "Lit"
    /\ stmts[Len(stmts)].lit = "Int"

\* C5: a module whose entry function has an empty body, or a body whose last
\* statement is no integer literal expression, does not compile: for every
\* declared return type the caller receives a failure and no byte buffer
C5_UnsupportedBodyFails ==
    (Returned /\ Len(ast) = 1 /\ ~EndsInIntLiteral(ast[1].stmts))
        => ret.value = None

\* the width of a type, in bytes
Width(t) == CASE t = "U8" -> 1 [] t = "U16" -> 2 [] t = "U32" -> 4 [] t = "U64" -> 8

DeclaredInt(t) ==
    CASE t = u8 -> "U8" [] t = u16 -> "U16" [] t = u32 -> "U32" [] t = u64 -> "U64"

\* the entry function declares u8..u64 and ends in an unsuffixed integer literal
UnsuffixedReturn(f) ==
    /\ IntegerType(f.output)
    /\ EndsInIntLiteral(f.stmts)
    /\ f.stmts[Len(f.stmts)].suffix = "None"

FitsDeclared(f) ==
    \/ f.output = u64
    \/ Width(DeclaredInt(f.output))
          >= Width(determine_minimal_size(f.stmts[Len(f.stmts)].value))

\* C10: an unsuffixed trailing literal v in a function declared T fits iff T is
\* U64 or T is at least as wide as the minimal width of v; when it fits the
\* inferred type is T and the function compiles, and when it does not,
\* compilation fails and yields no byte buffer
C10_FitDecidesCompile ==
    (Returned /\ Len(ast) = 1 /\ UnsuffixedReturn(ast[1])) =>
        IF FitsDeclared(ast[1])
        THEN /\ EntryInner = Some(RetInt(DeclaredInt(ast[1].output)))
             /\ IsSome(ret.value)
             /\ Framed(Unwrap(ret.value))
        ELSE /\ EntryInner = None
             /\ ret.value = None

(***************************************************************************)
(* Properties of determine_minimal_size.                                   *)
(***************************************************************************)
\* the bucket of a value, from its words
Bucket(v) ==
    IF v[1] = 0 /\ v[2] = 0 /\ v[3] = 0 /\ v[4] <= 254 THEN "U8"
    ELSE IF v[1] = 0 /\ v[2] = 0 /\ v[3] = 0 /\ v[4] <= 65534 THEN "U16"
    ELSE IF v[1] = 0 /\ v[2] = 0 /\ ~(v[3] = 65535 /\ v[4] = 65535) THEN "U32"
    ELSE "U64"

\* C9: determine_minimal_size classifies v as U8 when v <= 0xFE, U16 when
\* 0xFF <= v <= 0xFFFE, U32 when 0xFFFF <= v <= 0xFFFFFFFE and U64 when
\* v >= 0xFFFFFFFF
C9_Buckets == minimal_size /= "Unknown" => minimal_size = Bucket(actual)

\* C9's case: the boundary 0xFFFFFFFF was classified, into the larger bucket
C9_Witness == actual = U64(0, 0, 65535, 65535) /\ minimal_size = "U64"

(***************************************************************************)
(* The memory manager under a client that allocates, loads, runs and drops *)
(* regions in any order, and keeps one of them in an Option<JitMemory>.    *)
(***************************************************************************)
\* the bytes of a compiled function (55 48 89 E5 B0 04 5D C3), repeated
Program == <<85, 72, 137, 229, 176, 4, 93, 195>>

Buffer(n) == [i \in 1..n |-> Program[((i - 1) % 8) + 1]]

Buffers == { Buffer(n) : n \in 0..MaxBufLen }

Outcome(value) == IF IsSome(value) THEN "Some" ELSE "None"

MemNew(num_pages, memalign, mprotect) ==
    /\ LET made == jit_new(heap, num_pages, memalign, mprotect)
       IN  /\ heap' = made.heap
           /\ regions' = regions \cup { made.value[i] : i \in 1..Len(made.value) }
           /\ op' = [name |-> "new", ptr |-> 0, len |-> 0, result |-> Outcome(made.value)]
    /\ UNCHANGED <<jit_mem, file, cli_pc, assembly_buf, invoked, compileVars, sizeVars, pageVars, threadVars>>

\* JitMemory::new returns a region
NewRegion ==
    /\ Len(heap) < MaxBlocks
    /\ \E n \in 0..MaxPages : MemNew(n, "OK", "OK")

\* posix_memalign fails, or answers a null pointer
NewNoMemory ==
    /\ Len(heap) < MaxBlocks
    /\ \E n \in 0..MaxPages :
          \E a \in MemalignAnswers(n * PageSize) \ {"OK"} : MemNew(n, a, "OK")

\* mprotect fails after the block was reserved
NewProtectFails ==
    /\ Len(heap) < MaxBlocks
    /\ \E n \in 0..MaxPages : MemNew(n, "OK", "FAIL")

FromAssemblyBuf ==
    /\ Len(heap) < MaxBlocks
    /\ \E buf \in Buffers :
       \E a \in MemalignAnswers(necessary_pages(Len(buf), PageSize) * PageSize) :
       \E p \in {"OK", "FAIL"} :
          LET made == from_assembly_buf(heap, buf, a, p)
          IN  /\ heap' = made.heap
              /\ regions' = regions \cup { made.value[i] : i \in 1..Len(made.value) }
              /\ op' = [name |-> "from_assembly_buf", ptr |-> 0, len |-> 0,
                        result |-> Outcome(made.value)]
    /\ UNCHANGED <<jit_mem, file, cli_pc, assembly_buf, invoked, compileVars, sizeVars, pageVars, threadVars>>

LoadAssembly ==
    /\ \E self \in regions : \E buf \in Buffers :
          LET loaded == load_assembly(heap, self, buf)
          IN  /\ heap' = loaded.heap
              /\ op' = [name |-> "load_assembly", ptr |-> self.memory_ptr,
                        len |-> Len(buf), result |-> loaded.result]
    /\ UNCHANGED <<regions, jit_mem, file, cli_pc, assembly_buf, invoked,
                   compileVars, sizeVars, pageVars, threadVars>>

\* run: the region's address as a function pointer
Run ==
    /\ \E self \in regions :
          op' = [name |-> "run", ptr |-> 0, len |-> 0, result |-> "fn"]
    /\ UNCHANGED <<heap, regions, jit_mem, file, cli_pc, assembly_buf, invoked,
                   compileVars, sizeVars, pageVars, threadVars>>

\* a region goes out of scope
Drop ==
    /\ \E self \in regions :
          /\ heap' = jit_drop(heap, self)
          /\ regions' = regions \ {self}
          /\ op' = [name |-> "drop", ptr |-> 0, len |-> 0, result |-> ""]
    /\ UNCHANGED <<jit_mem, file, cli_pc, assembly_buf, invoked, compileVars, sizeVars, pageVars, threadVars>>

\* a region is moved into the client's Option<JitMemory>, as assemble does
Replace ==
    /\ \E self \in regions :
          LET assigned == assign_jit(heap, jit_mem, self)
          IN  /\ heap' = assigned.heap
              /\ jit_mem' = assigned.jit
              /\ regions' = regions \ {self}
              /\ op' = [name |-> "assign", ptr |-> 0, len |-> 0, result |-> ""]
    /\ UNCHANGED <<file, cli_pc, assembly_buf, invoked, compileVars, sizeVars, pageVars, threadVars>>

InitMem ==
    /\ MemIdle
    /\ CliIdle
    /\ CompileIdle
    /\ SizeIdle
    /\ PagesIdle
    /\ ThreadsIdle

NextMem ==
    \/ NewRegion
    \/ NewNoMemory
    \/ NewProtectFails
    \/ FromAssemblyBuf
    \/ LoadAssembly
    \/ Run
    \/ Drop
    \/ Replace

SpecMem == InitMem /\ [][NextMem]_vars

(***************************************************************************)
(* The watch loop of main: assemble (parse, compile, from_assembly_buf,    *)
(* assign) and exec, at the start and after every write to the file.       *)
(***************************************************************************)
MainFn(output, stmts) == ItemFn("main", <<START>>, <<>>, output, stmts)

\* the files the loop sees: None does not parse; then two that compile, and
\* one for each way compile has of not producing code
CliFiles ==
    { None,
      Some(<<MainFn(u8, <<LitInt(Small(4), "None")>>)>>),
      Some(<<ItemFn("helper", <<>>, <<>>, None, <<>>),
             MainFn(u64, <<LitInt(Small(4), "None")>>)>>),
      Some(<<MainFn(u8, <<LitInt(Small(300), "None")>>)>>),
      Some(<<MainFn(u8, <<>>)>>),
      Some(<<MainFn(u8, <<ExprOther>>)>>),
      Some(<<MainFn(u16, <<LitInt(Small(4), "U8")>>)>>),
      Some(<<MainFn(None, <<>>)>>),
      Some(<<MainFn(u8, <<LitInt(Small(4), "None")>>),
             ItemFn("main", <<>>, <<>>, None, <<>>)>>),
      Some(<<ItemFn("main", <<>>, <<>>, u8, <<LitInt(Small(4), "None")>>)>>),
      Some(<<MainFn(u8, <<LitInt(Small(4), "None")>>),
             ItemFn("helper", <<START>>, <<>>, None, <<>>)>>) }

\* parse_file(..).unwrap() and compile(ast).unwrap()
Compiled ==
    IF file = None
    THEN [ret |-> [panic |-> TRUE, value |-> None, error |-> ""],
          GLOBAL_LABEL_ID |-> GLOBAL_LABEL_ID]
    ELSE compile(Unwrap(file), GLOBAL_LABEL_ID)

\* compile returned a buffer
CliCompile ==
    /\ cli_pc = "compile"
    /\ IsSome(Compiled.ret.value)
    /\ GLOBAL_LABEL_ID' = Compiled.GLOBAL_LABEL_ID
    /\ assembly_buf' = Compiled.ret.value
    /\ cli_pc' = "allocate"
    /\ UNCHANGED <<file, jit_mem, invoked, heap, regions, op, compileLocals, sizeVars, pageVars, threadVars>>

\* the file does not parse, compile returned None, or compile panicked: main
\* panics and unwinds
CliCompileAborts ==
    /\ cli_pc = "compile"
    /\ Compiled.ret.value = None
    /\ GLOBAL_LABEL_ID' = Compiled.GLOBAL_LABEL_ID
    /\ heap' = unwind(heap, jit_mem)
    /\ jit_mem' = None
    /\ cli_pc' = "aborted"
    /\ UNCHANGED <<file, assembly_buf, invoked, regions, op, compileLocals, sizeVars, pageVars, threadVars>>

Allocated(memalign, mprotect) ==
    from_assembly_buf(heap, Unwrap(assembly_buf).instructions, memalign, mprotect)

AllocateAnswers ==
    MemalignAnswers(
        necessary_pages(Len(Unwrap(assembly_buf).instructions), PageSize) * PageSize)

\* *jit = Some(JitMemory::from_assembly_buf(&assembly_buf).unwrap())
CliAllocate ==
    /\ cli_pc = "allocate"
    /\ \E a \in AllocateAnswers : \E p \in {"OK", "FAIL"} :
          /\ IsSome(Allocated(a, p).value)
          /\ LET assigned ==
                    assign_jit(Allocated(a, p).heap, jit_mem, Unwrap(Allocated(a, p).value))
             IN  heap' = assigned.heap /\ jit_mem' = assigned.jit
    /\ cli_pc' = "exec"
    /\ UNCHANGED <<file, assembly_buf, invoked, regions, op, compileVars, sizeVars, pageVars, threadVars>>

\* from_assembly_buf returned None: main panics and unwinds
CliAllocateAborts ==
    /\ cli_pc = "allocate"
    /\ \E a \in AllocateAnswers : \E p \in {"OK", "FAIL"} :
          /\ Allocated(a, p).value = None
          /\ heap' = unwind(Allocated(a, p).heap, jit_mem)
    /\ jit_mem' = None
    /\ cli_pc' = "aborted"
    /\ UNCHANGED <<file, assembly_buf, invoked, regions, op, compileVars, sizeVars, pageVars, threadVars>>

\* exec: the region is called and returns
CliExec ==
    /\ cli_pc = "exec"
    /\ invoked' = invoked \cup {Unwrap(jit_mem).memory_ptr}
    /\ cli_pc' = "waiting"
    /\ UNCHANGED <<file, jit_mem, assembly_buf, heap, regions, op, compileVars, sizeVars, pageVars, threadVars>>

\* exec on a region of no bytes: the call runs whatever lies at the address,
\* and the process may as well be killed
CliExecKilled ==
    /\ cli_pc = "exec"
    /\ Unwrap(jit_mem).allocated_size = 0
    /\ invoked' = invoked \cup {Unwrap(jit_mem).memory_ptr}
    /\ cli_pc' = "killed"
    /\ UNCHANGED <<file, jit_mem, assembly_buf, heap, regions, op, compileVars, sizeVars, pageVars, threadVars>>

\* Ok(DebouncedEvent::Write(_)): the file is read again
FileWrite ==
    /\ cli_pc = "waiting"
    /\ Len(heap) < MaxBlocks
    /\ GLOBAL_LABEL_ID < MaxLabel
    /\ \E f \in CliFiles : file' = f
    /\ cli_pc' = "compile"
    /\ UNCHANGED <<jit_mem, assembly_buf, invoked, heap, regions, op, compileVars, sizeVars, pageVars, threadVars>>

\* Ok(_) and Err(e): nothing is recompiled
OtherEvent ==
    /\ cli_pc = "waiting"
    /\ UNCHANGED vars

InitCli ==
    /\ file \in CliFiles
    /\ cli_pc = "compile"
    /\ jit_mem = None
    /\ assembly_buf = None
    /\ invoked = {}
    /\ MemIdle
    /\ CompileIdle
    /\ SizeIdle
    /\ PagesIdle
    /\ ThreadsIdle

NextCli ==
    \/ CliCompile
    \/ CliCompileAborts
    \/ CliAllocate
    \/ CliAllocateAborts
    \/ CliExec
    \/ CliExecKilled
    \/ FileWrite
    \/ OtherEvent

SpecCli == InitCli /\ [][NextCli]_vars

(***************************************************************************)
(* Properties of the memory manager and of the watch loop.                 *)
(***************************************************************************)
\* the compilation of a parsed file fails: a repeated name, not exactly one
\* marked function, or an entry function whose declared type is not one of
\* u8..u64 or differs from the inferred type (an empty body, a last statement
\* that is no integer literal, a value that does not fit, a different suffix)
CompilationFails(module_ast) ==
    \/ Repeats(module_ast) /= {}
    \/ Cardinality(Marked(module_ast)) /= 1
    \/ ~IntegerType(EntryItem(module_ast).output)
    \/ get_return_type_inner(EntryItem(module_ast).stmts,
                             get_return_type_outer(EntryItem(module_ast).output))
           /= get_return_type_outer(EntryItem(module_ast).output)

\* C6: in the watch loop, whenever the compilation of the file fails, no
\* region is allocated, loaded or invoked for it, and the region loaded
\* before, if any, stays in place unchanged
C6_FailedCompilationTouchesNothing ==
    [][(IsSome(file') /\ CompilationFails(Unwrap(file')))
          => (heap' = heap /\ jit_mem' = jit_mem /\ invoked' = invoked)]_vars

\* C7: load_assembly of a buffer longer than the region's capacity returns
\* InstructionBufTooLarge and leaves every byte of the region as it was;
\* a buffer of at most the capacity is loaded
C7_LoadChecksCapacity ==
    [][op'.name = "load_assembly" =>
          IF op'.len > heap[op'.ptr].size
          THEN op'.result = "InstructionBufTooLarge" /\ heap' = heap
          ELSE op'.result = "Ok"]_vars

\* C7's case: a region that holds loaded bytes has refused a longer buffer
C7_Witness ==
    /\ op.name = "load_assembly"
    /\ op.result = "InstructionBufTooLarge"
    /\ heap[op.ptr].size = PageSize
    /\ heap[op.ptr].bytes[1] = 85

\* the blocks some live JitMemory points to
Owned ==
    { self.memory_ptr : self \in regions } \cup { jit_mem[i].memory_ptr : i \in 1..Len(jit_mem) }

\* C8: every block reserved from the OS is released exactly once: it is not
\* freed while a JitMemory owns it, it is freed once when that is dropped or
\* replaced, it is freed once when its protection change fails, and no two
\* JitMemory values own the same block
C8_ReleasedExactlyOnce ==
    /\ \A ptr \in 1..Len(heap) : heap[ptr].frees = IF ptr \in Owned THEN 0 ELSE 1
    /\ \A a, b \in regions \cup { jit_mem[i] : i \in 1..Len(jit_mem) } :
           a.memory_ptr = b.memory_ptr => a = b

\* C8's case: the slot's region was replaced: the block of the region it held
\* is released, the block of the region it holds now is not
C8_Witness ==
    /\ op.name = "assign"
    /\ \E ptr \in 1..Len(heap) : heap[ptr].exec /\ heap[ptr].frees = 1
    /\ IsSome(jit_mem)
    /\ heap[Unwrap(jit_mem).memory_ptr].frees = 0

(***************************************************************************)
(* The byte accessors of a region.  A reference is the block and the       *)
(* offset that memory_ptr.offset(index) points to; it lies in the block    *)
(* when the offset is less than the block's size.                          *)
(***************************************************************************)
\* get_unchecked / get_unchecked_mut: &*self.memory_ptr.offset(index)
get_unchecked(self, index) == [ptr |-> self.memory_ptr, offset |-> index]

\* JitMemory::get and JitMemory::get_mut
get(self, index) ==
    IF index > self.allocated_size
    THEN None
    ELSE Some(get_unchecked(self, index))

\* Index::index and IndexMut::index_mut with debug_assertions:
\* self.get(index).unwrap()
index_checked(self, index) ==
    [panic |-> get(self, index) = None, value |-> get(self, index)]

InBlock(blocks, ref) == ref.offset < blocks[ref.ptr].size

\* what a read through a reference can see: the byte of the block, or, outside
\* the block, whatever lies behind it
Deref(blocks, ref) ==
    IF InBlock(blocks, ref) THEN {blocks[ref.ptr].bytes[ref.offset + 1]} ELSE {0, TRAP}

\* a write through a reference; outside the block it changes no byte of it
Store(blocks, ref, byte) ==
    IF InBlock(blocks, ref)
    THEN [blocks EXCEPT ![ref.ptr].bytes[ref.offset + 1] = byte]
    ELSE blocks

\* the indexes a client tries on a region: up to one past its capacity
Indexes(self) == 0..(self.allocated_size + 1)

\* the bytes a client writes: 0x00 and 0xC3
WrittenBytes == {0, 195}

AccessUnchanged ==
    UNCHANGED <<regions, jit_mem, file, cli_pc, assembly_buf, invoked, compileVars, sizeVars, pageVars, threadVars>>

\* region.get(index), and a read through the reference it returns
Get ==
    /\ \E self \in regions : \E index \in Indexes(self) :
          LET got == get(self, index)
          IN  IF got = None
              THEN op' = [name |-> "get", ptr |-> self.memory_ptr, len |-> index,
                          result |-> "None", byte |-> 0]
              ELSE \E byte \in Deref(heap, Unwrap(got)) :
                      op' = [name |-> "get", ptr |-> self.memory_ptr, len |-> index,
                             result |-> "Some", byte |-> byte]
    /\ heap' = heap
    /\ AccessUnchanged

\* region.get_mut(index), and a write through the reference it returns
GetMut ==
    /\ \E self \in regions : \E index \in Indexes(self) : \E byte \in WrittenBytes :
          LET got == get(self, index)
          IN  IF got = None
              THEN /\ op' = [name |-> "get_mut", ptr |-> self.memory_ptr, len |-> index,
                             result |-> "None", byte |-> 0]
                   /\ heap' = heap
              ELSE /\ op' = [name |-> "get_mut", ptr |-> self.memory_ptr, len |-> index,
                             result |-> "Some", byte |-> byte]
                   /\ heap' = Store(heap, Unwrap(got), byte)
    /\ AccessUnchanged

\* region[index] read in a build with debug_assertions
IndexRead ==
    /\ \E self \in regions : \E index \in Indexes(self) :
          LET got == index_checked(self, index)
          IN  IF got.panic
              THEN op' = [name |-> "index", ptr |-> self.memory_ptr, len |-> index,
                          result |-> "panic", byte |-> 0]
              ELSE \E byte \in Deref(heap, Unwrap(got.value)) :
                      op' = [name |-> "index", ptr |-> self.memory_ptr, len |-> index,
                             result |-> "Some", byte |-> byte]
    /\ heap' = heap
    /\ AccessUnchanged

\* region[index] = byte in a build with debug_assertions
IndexWrite ==
    /\ \E self \in regions : \E index \in Indexes(self) : \E byte \in WrittenBytes :
          LET got == index_checked(self, index)
          IN  IF got.panic
              THEN /\ op' = [name |-> "index_mut", ptr |-> self.memory_ptr, len |-> index,
                             result |-> "panic", byte |-> 0]
                   /\ heap' = heap
              ELSE /\ op' = [name |-> "index_mut", ptr |-> self.memory_ptr, len |-> index,
                             result |-> "Some", byte |-> byte]
                   /\ heap' = Store(heap, Unwrap(got.value), byte)
    /\ AccessUnchanged

\* a region of 0..MaxPages pages, as JitMemory::new leaves it
InitAccess ==
    /\ \E n \in 0..MaxPages :
          LET made == jit_new(<<>>, n, "OK", "OK")
          IN  heap = made.heap /\ regions = {Unwrap(made.value)}
    /\ op = NoOp
    /\ CliIdle
    /\ CompileIdle
    /\ SizeIdle
    /\ PagesIdle
    /\ ThreadsIdle

NextAccess ==
    \/ Get
    \/ GetMut
    \/ IndexRead
    \/ IndexWrite
    \/ LoadAssembly

SpecAccess == InitAccess /\ [][NextAccess]_vars

Accessors == {"get", "get_mut", "index", "index_mut"}

\* C11: get, get_mut and indexing in checked builds are bounds-checked against
\* the capacity: an index i >= capacity is rejected (None, or a panic), so no
\* byte outside the region is reached; an index i < capacity reaches byte i
C11_AccessorsBoundsChecked ==
    op.name \in Accessors =>
        IF op.len >= heap[op.ptr].size
        THEN op.result \in {"None", "panic"}
        ELSE op.result = "Some" /\ op.byte = heap[op.ptr].bytes[op.len + 1]

(***************************************************************************)
(* The page count of from_assembly_buf, for buffers of any length: the     *)
(* count it asks new for, the size pre_setup computes from it, and the     *)
(* comparison load_assembly then makes.                                    *)
(***************************************************************************)
\* the page size of x86-64 linux
LINUX_PAGE_SIZE == 4096

PageSizes == {PageSize, LINUX_PAGE_SIZE}

\* lengths around 0, around one page and two, and around 2^24 and 2^25
LengthBases ==
    {0, PageSize, LINUX_PAGE_SIZE - 2, 2 * LINUX_PAGE_SIZE - 2,
     F32_EXACT - LINUX_PAGE_SIZE - 2, F32_EXACT - 2, F32_EXACT + LINUX_PAGE_SIZE - 2,
     2 * F32_EXACT - 2, 2 * F32_EXACT + LINUX_PAGE_SIZE - 2}

BufferLengths == { base + d : base \in LengthBases, d \in 0..MaxOffset }

\* from_assembly_buf, as far as sizes go
PagesOfBuffer ==
    /\ page_count = None
    /\ LET necessary == necessary_pages(assembly_len, os_page_size)
           allocation_size_in_bytes == necessary * os_page_size
       IN  /\ page_count' = Some(necessary)
           /\ load_result' = IF assembly_len > allocation_size_in_bytes
                              THEN "InstructionBufTooLarge"
                              ELSE "Ok"
    /\ UNCHANGED <<assembly_len, os_page_size, compileVars, sizeVars, memVars, cliVars,
                   threadVars>>

InitPages ==
    /\ assembly_len \in BufferLengths
    /\ os_page_size \in PageSizes
    /\ page_count = None
    /\ load_result = ""
    /\ ThreadsIdle
    /\ CompileIdle
    /\ SizeIdle
    /\ MemIdle
    /\ CliIdle

NextPages == PagesOfBuffer

SpecPages == InitPages /\ [][NextPages]_vars

\* C12: for every buffer of length n, from_assembly_buf requests exactly
\* ceil(n / page_size) pages, so that n is at most the capacity
\* page_size * page_count and the load inside it never fails
C12_PagesCoverBuffer ==
    IsSome(page_count) =>
        /\ Unwrap(page_count) = (assembly_len + os_page_size - 1) \div os_page_size
        /\ assembly_len <= os_page_size * Unwrap(page_count)
        /\ load_result = "Ok"

(***************************************************************************)
(* compile called again and again in one process: each call enters with    *)
(* fresh locals and with GLOBAL_LABEL_ID as the call before left it.       *)
(***************************************************************************)
RepeatItems ==
    { ItemFn(n, a, <<>>, u8, <<LitInt(Small(4), "None")>>) :
        n \in FnNames, a \in {<<>>, <<START>>} }

RepeatModules == UNION { [1..k -> RepeatItems] : k \in 0..MaxRepeatItems }

\* compile has returned, and the caller calls it with another module
CompileAgain ==
    /\ pc = "done"
    /\ GLOBAL_LABEL_ID < MaxLabel
    /\ \E module_ast \in RepeatModules : ast' = module_ast
    /\ pos' = 0
    /\ pc' = "scan"
    /\ entry_fn' = None
    /\ module_functions' = <<>>
    /\ module_functions_set' = {}
    /\ fn_offset_map' = <<>>
    /\ ret' = NoReturn
    /\ UNCHANGED <<GLOBAL_LABEL_ID, sizeVars, memVars, cliVars, pageVars, threadVars>>

InitRepeat ==
    /\ \E module_ast \in RepeatModules : CompileEntered(module_ast)
    /\ GLOBAL_LABEL_ID = 0
    /\ SizeIdle
    /\ PagesIdle
    /\ ThreadsIdle
    /\ MemIdle
    /\ CliIdle

NextRepeat ==
    \/ ScanDuplicate
    \/ ScanFn
    \/ ScanStart
    \/ ScanSecondStart
    \/ NoEntry
    \/ EnterAssemble
    \/ AssembleFramed
    \/ CompileAgain

SpecRepeat == InitRepeat /\ [][NextRepeat]_vars

\* C13: over any sequence of compilations in one process, the functions a
\* compilation has accepted hold the labels 0, 1, 2, .. in scan order,
\* however many functions earlier compilations accepted
C13_LabelsStartAtZero ==
    /\ DOMAIN module_functions = 0..(Cardinality(DOMAIN module_functions) - 1)
    /\ \A a, b \in DOMAIN module_functions :
          a < b => \E i, j \in 1..pos :
                      /\ i < j
                      /\ ast[i].ident = module_functions[a].name
                      /\ ast[j].ident = module_functions[b].name

(***************************************************************************)
(* Properties of assemble_function and assemble_statements.                *)
(***************************************************************************)
\* C14: the entry function assembles, to framed bytes, only if its declared
\* and its inferred return type are both present and equal; in every other
\* case, both absent included, the caller receives a ReturnTypeMismatch
\* failure: no bytes, and no abort
C14_MismatchIsReturned ==
    (Returned /\ Len(ast) = 1) =>
        IF EntryOuter /= None /\ EntryOuter = EntryInner
        THEN pc = "done" /\ IsSome(ret.value) /\ Framed(Unwrap(ret.value))
        ELSE /\ pc = "done"
             /\ ret.value = None
             /\ ret.error = "ReturnTypeMismatch"

\* the entry function has compiled to framed bytes and ends in an integer literal
EntryCompiled ==
    /\ pc = "done"
    /\ Len(ast) = 1
    /\ EndsInIntLiteral(ast[1].stmts)
    /\ EntryOuter /= None
    /\ EntryOuter = EntryInner
    /\ IsSome(ret.value)
    /\ Framed(Unwrap(ret.value))

\* the bytes between the prologue and the epilogue
BodyBytes ==
    SubSeq(Unwrap(ret.value).instructions, 5, Len(Unwrap(ret.value).instructions) - 2)

TrailingValue == ast[1].stmts[Len(ast[1].stmts)].value

\* the opcode of the move of each width
Opcode(t) ==
    CASE t = "U8" -> <<176>> [] t = "U16" -> <<102, 184>>
      [] t = "U32" -> <<184>> [] t = "U64" -> <<72, 184>>

\* the value that `bytes` hold, least significant byte first, as words
ByteAt(bytes, i) == IF i <= Len(bytes) THEN bytes[i] ELSE 0

LittleEndianValue(bytes) ==
    <<ByteAt(bytes, 7) + 256 * ByteAt(bytes, 8), ByteAt(bytes, 5) + 256 * ByteAt(bytes, 6),
      ByteAt(bytes, 3) + 256 * ByteAt(bytes, 4), ByteAt(bytes, 1) + 256 * ByteAt(bytes, 2)>>

\* T' of a validated type T and a value v: U32 for a U64 whose value has a
\* minimal width of U8, U16 or U32, and T otherwise
EmittedType(t, v) == IF t = "U64" /\ Bucket(v) /= "U64" THEN "U32" ELSE t

\* C15: for every validated return type T and trailing literal value v the
\* body bytes are opcode(T') followed by the width(T')-byte little-endian
\* encoding of v
C15_BodyIsMoveOfValue ==
    EntryCompiled =>
        LET t == EmittedType(EntryOuter[1][2], TrailingValue)
            immediate == SubSeq(BodyBytes, Len(Opcode(t)) + 1, Len(BodyBytes))
        IN  /\ SubSeq(BodyBytes, 1, Len(Opcode(t))) = Opcode(t)
            /\ Len(immediate) = Width(t)
            /\ LittleEndianValue(immediate) = TrailingValue

\* the immediate operand of the move instruction at the start of `bytes`, as
\* a processor reads it: B0 ib, 66 B8 iw, B8 id, 48 B8 io
Immediate(bytes) ==
    CASE bytes[1] = 176 -> SubSeq(bytes, 2, 2)
      [] bytes[1] = 102 -> SubSeq(bytes, 3, 4)
      [] bytes[1] = 184 -> SubSeq(bytes, 2, 5)
      [] bytes[1] = 72 -> SubSeq(bytes, 3, 10)

\* C17: for every function that compiles, with a suffixed or an unsuffixed
\* trailing literal, the immediate operand of the emitted move, read as a
\* little-endian unsigned integer, equals the literal's value
C17_ImmediateIsTheLiteral ==
    EntryCompiled => LittleEndianValue(Immediate(BodyBytes)) = TrailingValue

(***************************************************************************)
(* Two threads of one process in compile at the same time.  Each has its   *)
(* own locals; GLOBAL_LABEL_ID is shared and is read and written without   *)
(* synchronisation: the read of fn_label, and the load and the store of    *)
(* `GLOBAL_LABEL_ID += 1`, are steps of their own.                         *)
(***************************************************************************)
Threads == {1, 2}

\* the i-th function of a module: its name is its own, it may be marked
ThreadItem(i, marked) ==
    ItemFn("f" \o ToString(i), IF marked THEN <<START>> ELSE <<>>, <<>>, u8,
           <<LitInt(Small(4), "None")>>)

\* modules of 1..MaxThreadItems functions with at most one marked
ThreadModules ==
    { [i \in 1..k |-> ThreadItem(i, i = m)] : k \in 1..MaxThreadItems, m \in 0..MaxThreadItems }

ThreadEntered(module_ast) ==
    [ast |-> module_ast, pos |-> 0, pc |-> "scan", c |-> compile_locals(0),
     loaded |-> 0, ret |-> NoReturn]

ThreadUnchanged == UNCHANGED <<compileLocals, sizeVars, memVars, cliVars, pageVars>>

\* let fn_label = GlobalLabel(unsafe { GLOBAL_LABEL_ID })
ThreadReadLabel(t) ==
    /\ threads[t].pc = "scan"
    /\ threads[t].pos < Len(threads[t].ast)
    /\ threads' = [threads EXCEPT ![t].c.GLOBAL_LABEL_ID = GLOBAL_LABEL_ID,
                                  ![t].pc = "item"]
    /\ UNCHANGED GLOBAL_LABEL_ID
    /\ ThreadUnchanged

\* the rest of the iteration up to the increment: the name is checked and
\* recorded, the function inserted under fn_label, the marker looked at
ThreadScanItem(t) ==
    /\ threads[t].pc = "item"
    /\ LET d == scan_item(threads[t].c, threads[t].ast[threads[t].pos + 1])
       IN  threads' = [threads EXCEPT
                         ![t].c = d,
                         ![t].pc = IF d.returned = "No" THEN "load" ELSE "done",
                         ![t].ret = IF d.returned = "No" THEN @ ELSE compile_finish(d)]
    /\ UNCHANGED GLOBAL_LABEL_ID
    /\ ThreadUnchanged

\* GLOBAL_LABEL_ID += 1: the load
ThreadLoad(t) ==
    /\ threads[t].pc = "load"
    /\ threads' = [threads EXCEPT ![t].loaded = GLOBAL_LABEL_ID, ![t].pc = "store"]
    /\ UNCHANGED GLOBAL_LABEL_ID
    /\ ThreadUnchanged

\* GLOBAL_LABEL_ID += 1: the store
ThreadStore(t) ==
    /\ threads[t].pc = "store"
    /\ GLOBAL_LABEL_ID' = threads[t].loaded + 1
    /\ threads' = [threads EXCEPT ![t].pos = @ + 1, ![t].pc = "scan"]
    /\ ThreadUnchanged

\* after the loop
ThreadFinish(t) ==
    /\ threads[t].pc = "scan"
    /\ threads[t].pos = Len(threads[t].ast)
    /\ threads' = [threads EXCEPT ![t].ret = compile_finish(threads[t].c),
                                  ![t].pc = "done"]
    /\ UNCHANGED GLOBAL_LABEL_ID
    /\ ThreadUnchanged

InitThreads ==
    /\ threads \in [Threads -> { ThreadEntered(m) : m \in ThreadModules }]
    /\ CompileIdle
    /\ SizeIdle
    /\ PagesIdle
    /\ MemIdle
    /\ CliIdle

NextThreads ==
    \E t \in Threads :
        \/ ThreadReadLabel(t)
        \/ ThreadScanItem(t)
        \/ ThreadLoad(t)
        \/ ThreadStore(t)
        \/ ThreadFinish(t)

SpecThreads == InitThreads /\ [][NextThreads]_vars

\* the names of the marked functions of a module
MarkedNames(module_ast) == { module_ast[i].ident : i \in Marked(module_ast) }

\* C16: under any interleaving of two compilations in one process, the
\* labels a compilation assigns are pairwise distinct: its function table
\* holds one entry for each function it accepted, none is overwritten, and
\* the recorded entry label maps to the marked function
C16_LabelsDistinctPerCompilation ==
    \A t \in DOMAIN threads :
        /\ Cardinality(DOMAIN threads[t].c.module_functions)
              = Cardinality(threads[t].c.module_functions_set)
        /\ IsSome(threads[t].c.entry_fn) =>
              threads[t].c.module_functions[Unwrap(threads[t].c.entry_fn)].name
                  \in MarkedNames(threads[t].ast)

=============================================================================
